---- MODULE Spec2Model ----
(***************************************************************************)
(* Ordered parallel map-reduce pipeline of tdf_writer:                     *)
(*   SyncBoundedContainer<T>      (sync_bouded_container.hpp)              *)
(*   SyncBoundedPriorityQueue<T>  (sync_bouded_container.hpp)              *)
(*   SynchronizedBuffer<T>        (sync_buffer.hpp)                        *)
(*   Dispatcher<Mapper, Reducer>  (sync_buffer.hpp, dispatcher part)       *)
(*                                                                         *)
(* Three specifications share the container operators:                     *)
(*   Spec      a Dispatcher driven by caller threads                       *)
(*   SpecPQ    one SyncBoundedPriorityQueue driven by pushers, a popper    *)
(*             and a closer                                                *)
(*   SpecFIFO  one SynchronizedBuffer driven by pushers, poppers and a     *)
(*             closer                                                      *)
(*                                                                         *)
(* Every container method runs under the container's mutex, so one method  *)
(* call is one atomic step from the acquisition of the lock up to the      *)
(* return, the throw, or the point where the thread parks itself on a      *)
(* condition variable. A parked thread is a member of the condition        *)
(* variable's wait set and takes no step until a notify (or a spurious     *)
(* wakeup) removes it; it then runs the method's predicate again.          *)
(***************************************************************************)
EXTENDS Integers, Sequences, FiniteSets, TLC

\* ------------------------------------------------------------------ bounds
\* Most add_input calls that succeed in one run.
MaxInputs == 3
\* Inputs are drawn from 0..MaxInputValue.
MaxInputValue == 1
\* The Dispatcher is constructed with 1..MaxMappers mapper threads.
MaxMappers == 2
\* The Dispatcher is constructed with input_buffer_size in 1..MaxBufferSize.
MaxBufferSize == 2
\* Stand-alone containers are constructed with max_size in 1..MaxCapacity.
MaxCapacity == 2
\* Stand-alone pushers push the indices 0..MaxIndex-1, each at most once.
MaxIndex == 3
\* Threads of the stand-alone runs.
NumPushers == 2
NumPoppers == 2
\* A caller calls Dispatcher::close at most MaxCloses times.
MaxCloses == 2
\* The threads that use one Dispatcher at the same time.
NumCallers == 2

\* std::numeric_limits<size_t>::max(), the default max_size of a
\* SyncBoundedPriorityQueue. The largest integer of the model checker stands
\* for it: no run stores that many items or counts that far, so no size_t
\* of the model wraps around.
SIZE_MAX == 2147483647

VARIABLES
    \* ---- Dispatcher
    input_buffer,        \* Dispatcher::input_buffer       (SynchronizedBuffer)
    intermediate_queue,  \* Dispatcher::intermediate_queue (SyncBoundedPriorityQueue)
    next_job_index,      \* Dispatcher::next_job_index
    mapper,              \* Dispatcher::mapper  ("null" or the mapper object)
    reducer,             \* Dispatcher::reducer ("null" or the reducer object)
    mapper_threads,      \* Dispatcher::mapper_threads, each with its position
    reducer_thread,      \* Dispatcher::reducer_thread, with its position
    callers,             \* the threads that call add_input and close
    submitted,           \* history: the inputs of the add_input calls that returned
    assigned,            \* history: the values of next_job_index they took
    reduced,             \* history: the arguments of reducer->reduce, in call order
    \* ---- stand-alone container
    container,           \* the container under test
    clients,             \* the threads that call push, pop and close on it
    pushed,              \* history: the items whose push returned, in order
    popped,              \* history: the items pop returned, in order
    \* ---- process
    NDEBUG,              \* whether the build compiles assert() out: "any" until
                         \* the first failing assert decides it, then "defined"
    crashed              \* "none", "assert" (assert failed), "terminate"

dvars == <<input_buffer, intermediate_queue, next_job_index, mapper, reducer,
           mapper_threads, reducer_thread, callers, submitted, assigned,
           reduced>>
cvars == <<container, clients, pushed, popped>>
vars == <<input_buffer, intermediate_queue, next_job_index, mapper, reducer,
          mapper_threads, reducer_thread, callers, submitted, assigned, reduced,
          container, clients, pushed, popped, NDEBUG, crashed>>

\* ------------------------------------------------------------ thread names
CallerId(i) == <<"caller", i>>
MapperId(i) == <<"mapper", i>>
ReducerId == <<"reducer", 0>>
PusherId(i) == <<"pusher", i>>
PopperId(i) == <<"popper", i>>
CloserId == <<"closer", 0>>

NoItem == [index |-> -1, value |-> -1]

\* The messages of the two std::runtime_error throws.
PushAfterClose == "Push to a closed container"
SubmitAfterClose == "Cannot add input to closed dispatcher"

\* --------------------------------------------------------------- constructors
\* SynchronizedBuffer::SynchronizedBuffer(max_size_): an empty, open deque.
SynchronizedBuffer(max_size_) ==
    [kind |-> "SynchronizedBuffer", buffer |-> <<>>, max_size |-> max_size_,
     finished |-> FALSE, cv_can_accept |-> {}, cv_can_remove |-> {}]

\* SyncBoundedPriorityQueue::SyncBoundedPriorityQueue(max_size_): an empty,
\* open heap with next_index = 0. pq is the set of stored QueueElements.
SyncBoundedPriorityQueue(max_size_) ==
    [kind |-> "SyncBoundedPriorityQueue", pq |-> {}, next_index |-> 0,
     max_size |-> max_size_,
     finished |-> FALSE, cv_can_accept |-> {}, cv_can_remove |-> {}]

\* QueueElement(idx, val)
QueueElement(idx, val) == [index |-> idx, value |-> val]

\* ------------------------------------------------- the virtual container hooks
\* The stored items of a container, as a count.
size(c) ==
    IF c.kind = "SynchronizedBuffer" THEN Len(c.buffer) ELSE Cardinality(c.pq)

\* pq.top(): std::greater makes the heap a min-heap on index; among elements of
\* equal index the heap may hold any of them on top.
top(c) == {e \in c.pq : \A f \in c.pq : e.index <= f.index}

\* Mutant of SynchronizedBuffer::container_can_accept: <= for <.
SynchronizedBuffer_accepts_when_full(c, item) ==
    Len(c.buffer) <= c.max_size

\* SynchronizedBuffer::container_can_accept
SynchronizedBuffer_container_can_accept(c, item) ==
    Len(c.buffer) < c.max_size

\* Mutant of SyncBoundedPriorityQueue::container_can_accept: <= for <.
SyncBoundedPriorityQueue_accepts_when_full(c, item) ==
    \/ Cardinality(c.pq) <= c.max_size
    \/ \E t \in top(c) : item.index < t.index

\* SyncBoundedPriorityQueue::container_can_accept
SyncBoundedPriorityQueue_container_can_accept(c, item) ==
    \/ Cardinality(c.pq) < c.max_size
    \/ \E t \in top(c) : item.index < t.index

container_can_accept(c, item) ==
    IF c.kind = "SynchronizedBuffer"
    THEN SynchronizedBuffer_container_can_accept(c, item)
    ELSE SyncBoundedPriorityQueue_container_can_accept(c, item)

\* SynchronizedBuffer::container_can_yield / SyncBoundedPriorityQueue::container_can_yield
container_can_yield(c) ==
    IF c.kind = "SynchronizedBuffer"
    THEN c.buffer # <<>>
    ELSE c.pq # {} /\ \E t \in top(c) : t.index = c.next_index

\* SynchronizedBuffer::container_is_empty / SyncBoundedPriorityQueue::container_is_empty
container_is_empty(c) ==
    IF c.kind = "SynchronizedBuffer" THEN c.buffer = <<>> ELSE c.pq = {}

\* insert_into_container: push_back on the deque, push on the heap.
insert_into_container(c, item) ==
    IF c.kind = "SynchronizedBuffer"
    THEN [c EXCEPT !.buffer = Append(@, item)]
    ELSE [c EXCEPT !.pq = @ \cup {item}]

\* Mutant of SynchronizedBuffer::remove_from_container: the newest item is
\* taken (back of the deque) instead of the oldest.
remove_from_back(c) ==
    IF c.kind = "SynchronizedBuffer"
    THEN {[c |-> [c EXCEPT !.buffer = SubSeq(@, 1, Len(@) - 1)],
           item |-> c.buffer[Len(c.buffer)], assert_ok |-> TRUE]}
    ELSE {[c |-> [c EXCEPT !.pq = @ \ {e},
                           !.next_index = @ + 1],
           item |-> e,
           assert_ok |-> (e.index = c.next_index)] : e \in top(c)}

\* remove_from_container: the front of the deque; the top of the heap, with
\* assert(elem.index == next_index) and ++next_index. The result is the set of
\* possible outcomes [c, item, assert_ok].
remove_from_container(c) ==
    IF c.kind = "SynchronizedBuffer"
    THEN {[c |-> [c EXCEPT !.buffer = Tail(@)], item |-> Head(c.buffer),
           assert_ok |-> TRUE]}
    ELSE {[c |-> [c EXCEPT !.pq = @ \ {e},
                           !.next_index = @ + 1],
           item |-> e,
           assert_ok |-> (e.index = c.next_index)] : e \in top(c)}

\* ------------------------------------------------------ SyncBoundedContainer
\* condition_variable::notify_one on wait set ws: the wait sets that can result.
notify_one(ws) == IF ws = {} THEN {ws} ELSE {ws \ {t} : t \in ws}

\* Mutant of SyncBoundedContainer::push: the closed flag ends the wait but is
\* not tested after it, so a push on a closed container with room inserts.
push_into_closed(c, self, item) ==
    IF ~(container_can_accept(c, item) \/ c.finished)
    THEN {[outcome |-> "wait", item |-> item,
           c |-> [c EXCEPT !.cv_can_accept = @ \cup {self}]]}
    ELSE IF c.finished /\ ~container_can_accept(c, item)
    THEN {[outcome |-> "throw", item |-> item, c |-> c]}
    ELSE {[outcome |-> "return", item |-> item,
           c |-> [insert_into_container(c, item) EXCEPT !.cv_can_remove = ws]]
          : ws \in notify_one(c.cv_can_remove)}

\* SyncBoundedContainer::push called (or resumed) by thread self. The set of
\* possible outcomes [outcome, c, item]: "wait" (parked on cv_can_accept),
\* "throw" (std::runtime_error), "return".
push(c, self, item) ==
    IF ~(container_can_accept(c, item) \/ c.finished)
    THEN {[outcome |-> "wait", item |-> item,
           c |-> [c EXCEPT !.cv_can_accept = @ \cup {self}]]}
    ELSE IF c.finished
    THEN {[outcome |-> "throw", item |-> item, c |-> c]}
    ELSE {[outcome |-> "return", item |-> item,
           c |-> [insert_into_container(c, item) EXCEPT !.cv_can_remove = ws]]
          : ws \in notify_one(c.cv_can_remove)}

\* Mutant of SyncBoundedContainer::pop: end-of-stream as soon as the container
\* is closed, whether or not items remain.
pop_without_drain(c, self) ==
    IF ~(container_can_yield(c) \/ c.finished)
    THEN {[outcome |-> "wait", item |-> NoItem, assert_ok |-> TRUE,
           c |-> [c EXCEPT !.cv_can_remove = @ \cup {self}]]}
    ELSE IF c.finished
    THEN {[outcome |-> "nullopt", item |-> NoItem, assert_ok |-> TRUE, c |-> c]}
    ELSE {[outcome |-> "item", item |-> r.item, assert_ok |-> r.assert_ok,
           c |-> [r.c EXCEPT !.cv_can_accept = ws]]
          : r \in remove_from_container(c), ws \in notify_one(c.cv_can_accept)}

\* SyncBoundedContainer::pop called (or resumed) by thread self. Outcomes:
\* "wait" (parked on cv_can_remove), "nullopt", "item", and "abort" when the
\* assert of remove_from_container fails in a build that keeps assert().
\* A failing assert in a build not yet decided yields both the abort of the
\* debug build and the item of the NDEBUG build; assert_ok tells them apart.
pop(c, self) ==
    IF ~(container_can_yield(c) \/ c.finished)
    THEN {[outcome |-> "wait", item |-> NoItem, assert_ok |-> TRUE,
           c |-> [c EXCEPT !.cv_can_remove = @ \cup {self}]]}
    ELSE IF c.finished /\ container_is_empty(c)
    THEN {[outcome |-> "nullopt", item |-> NoItem, assert_ok |-> TRUE, c |-> c]}
    ELSE {[outcome |-> "item", item |-> r.item, assert_ok |-> r.assert_ok,
           c |-> [r.c EXCEPT !.cv_can_accept = ws]]
          : r \in remove_from_container(c), ws \in notify_one(c.cv_can_accept)}
         \cup
         {[outcome |-> "abort", item |-> r.item, assert_ok |-> FALSE, c |-> c]
          : r \in {q \in remove_from_container(c) :
                      ~q.assert_ok /\ NDEBUG = "any"}}

\* The build after a pop with outcome r: an assert that failed and did not
\* abort shows a build with NDEBUG defined.
build_after(r) == IF r.assert_ok THEN NDEBUG ELSE "defined"

\* Mutant of SyncBoundedContainer::close: the flag is set and no waiter is
\* notified.
close_without_notify(c) == [c EXCEPT !.finished = TRUE]

\* SyncBoundedContainer::close
close(c) ==
    [c EXCEPT !.finished = TRUE, !.cv_can_accept = {}, !.cv_can_remove = {}]

\* Mutant of SyncBoundedContainer::is_closed: the flag is never seen.
is_closed_never(c) == FALSE

\* SyncBoundedContainer::is_closed
is_closed(c) == c.finished

\* A spurious wakeup of thread t parked on one of c's condition variables.
wake(c, t) ==
    [c EXCEPT !.cv_can_accept = @ \ {t}, !.cv_can_remove = @ \ {t}]

parked(c, t) == t \in c.cv_can_accept \/ t \in c.cv_can_remove

\* ================================================= stand-alone container runs
\* The threads of a stand-alone run call push, pop and close on `container`.
\* clients[t] = [pc, item, result]: pc is "idle", "push", "pop" or "close".

Pushers == {PusherId(i) : i \in 1..NumPushers}

\* The indices some push has taken: pushers never reuse an index.
UsedIndices ==
    {pushed[i].index : i \in 1..Len(pushed)}
    \cup {clients[t].item.index : t \in {u \in DOMAIN clients : clients[u].pc = "push"}}

InitProcess ==
    /\ NDEBUG = "any"
    /\ crashed = "none"

\* The Dispatcher variables of a stand-alone run: no Dispatcher is constructed.
NoDispatcher ==
    /\ input_buffer = SynchronizedBuffer(1)
    /\ intermediate_queue = SyncBoundedPriorityQueue(SIZE_MAX)
    /\ next_job_index = 0
    /\ mapper_threads = <<>>
    /\ reducer_thread = [pc |-> "done", joinable |-> FALSE]
    /\ callers = <<>>
    /\ submitted = <<>>
    /\ assigned = <<>>
    /\ reduced = <<>>
    /\ mapper = "null"
    /\ reducer = "null"

\* waited tells whether the thread's last call of push that did not return
\* normally was parked on cv_can_accept before it ended.
Client(role) == [pc |-> role, item |-> NoItem, result |-> "none", waited |-> FALSE]

InitPQ ==
    /\ InitProcess
    /\ NoDispatcher
    /\ \E m \in 1..MaxCapacity : container = SyncBoundedPriorityQueue(m)
    /\ clients = [t \in Pushers \cup {PopperId(1), CloserId} |->
                    IF t \in Pushers THEN Client("idle")
                    ELSE IF t = CloserId THEN Client("close") ELSE Client("pop")]
    /\ pushed = <<>>
    /\ popped = <<>>

InitFIFO ==
    /\ InitProcess
    /\ NoDispatcher
    /\ \E m \in 1..MaxCapacity : container = SynchronizedBuffer(m)
    /\ clients = [t \in Pushers \cup {PopperId(i) : i \in 1..NumPoppers} \cup {CloserId} |->
                    IF t \in Pushers THEN Client("idle")
                    ELSE IF t = CloserId THEN Client("close") ELSE Client("pop")]
    /\ pushed = <<>>
    /\ popped = <<>>

\* A pusher picks a fresh index and calls push(QueueElement(n, n)).
CallPush(self, n) ==
    /\ crashed = "none"
    /\ self \in DOMAIN clients
    /\ clients[self].pc = "idle"
    /\ n \in (0..(MaxIndex - 1)) \ UsedIndices
    /\ clients' = [clients EXCEPT ![self].pc = "push",
                                  ![self].item = QueueElement(n, n),
                                  ![self].result = "none",
                                  ![self].waited = FALSE]
    /\ UNCHANGED <<container, pushed, popped, NDEBUG, crashed>>
    /\ UNCHANGED dvars

\* SyncBoundedContainer::push, from the lock to the wait, the throw or the return.
Push(self) ==
    /\ crashed = "none"
    /\ self \in DOMAIN clients
    /\ clients[self].pc = "push"
    /\ ~parked(container, self)
    /\ \E r \in push(container, self, clients[self].item) :
        /\ container' = r.c
        /\ clients' = [clients EXCEPT
                ![self].pc = IF r.outcome = "wait" THEN "push" ELSE "idle",
                ![self].item = IF r.outcome = "wait" THEN @ ELSE NoItem,
                ![self].result = CASE r.outcome = "wait" -> "none"
                                   [] r.outcome = "throw" -> PushAfterClose
                                   [] OTHER -> "ok",
                ![self].waited = CASE r.outcome = "wait" -> TRUE
                                   [] r.outcome = "throw" -> @
                                   [] OTHER -> FALSE]
        /\ pushed' = IF r.outcome = "return" THEN Append(pushed, r.item) ELSE pushed
    /\ UNCHANGED <<popped, NDEBUG, crashed>>
    /\ UNCHANGED dvars

\* SyncBoundedContainer::pop, from the lock to the wait, the nullopt or the item.
\* A popper calls pop again after every return.
Pop(self) ==
    /\ crashed = "none"
    /\ self \in DOMAIN clients
    /\ clients[self].pc = "pop"
    /\ ~parked(container, self)
    /\ \E r \in pop(container, self) :
        /\ container' = r.c
        /\ clients' = [clients EXCEPT
                ![self].result = CASE r.outcome = "wait" -> @
                                   [] r.outcome = "nullopt" -> "nullopt"
                                   [] r.outcome = "abort" -> "abort"
                                   [] OTHER -> "item"]
        /\ popped' = IF r.outcome = "item" THEN Append(popped, r.item) ELSE popped
        /\ crashed' = IF r.outcome = "abort" THEN "assert" ELSE crashed
        /\ NDEBUG' = IF r.outcome = "item" THEN build_after(r) ELSE NDEBUG
    /\ UNCHANGED pushed
    /\ UNCHANGED dvars

\* SyncBoundedContainer::close
Close(self) ==
    /\ crashed = "none"
    /\ self \in DOMAIN clients
    /\ clients[self].pc = "close"
    /\ container' = close(container)
    /\ clients' = [clients EXCEPT ![self].result = "ok"]
    /\ UNCHANGED <<pushed, popped, NDEBUG, crashed>>
    /\ UNCHANGED dvars

\* condition_variable::wait may return without a notify; the predicate loop of
\* wait(lock, pred) then runs the predicate again.
SpuriousWakeup(self) ==
    /\ crashed = "none"
    /\ self \in DOMAIN clients
    /\ parked(container, self)
    /\ container' = wake(container, self)
    /\ UNCHANGED <<clients, pushed, popped, NDEBUG, crashed>>
    /\ UNCHANGED dvars

NextC ==
    \/ \E self \in Pushers, n \in 0..(MaxIndex - 1) : CallPush(self, n)
    \/ \E self \in Pushers : Push(self)
    \/ \E self \in {PopperId(i) : i \in 1..NumPoppers} : Pop(self)
    \/ Close(CloserId)
    \/ \E self \in DOMAIN clients : SpuriousWakeup(self)

SpecPQ == InitPQ /\ [][NextC]_vars
SpecFIFO == InitFIFO /\ [][NextC]_vars

\* A stand-alone container of either kind.
SpecContainer == (InitPQ \/ InitFIFO) /\ [][NextC]_vars

\* ================================================================ Dispatcher
\* std::make_pair(a, b) converted to the element type of input_buffer,
\* std::pair<size_t, InputType>: a lands in first, b in second.
make_pair(a, b) == [first |-> a, second |-> b]

\* simpleMapper::map: a SimpleBuffer<char> holding the one byte input % 256.
map(input) == <<input % 256>>

InputValues == 0..MaxInputValue

\* One thread of mapper_threads / reducer_thread right after construction.
Thread == [pc |-> "pop", item |-> NoItem, joinable |-> TRUE]

\* A thread that uses the Dispatcher: pc is "idle" between calls, closes counts
\* the calls of close that have returned, and pending_at_close is the number
\* of submitted inputs not yet reduced when it last called close.
\* n is the value that next_job_index++ has read in a running add_input.
Caller ==
    [pc |-> "idle", input |-> 0, n |-> 0, item |-> make_pair(0, 0), i |-> 0,
     result |-> "none", closes |-> 0, pending_at_close |-> 0]

NoContainer ==
    /\ container = SynchronizedBuffer(1)
    /\ clients = <<>>
    /\ pushed = <<>>
    /\ popped = <<>>

\* The messages of the std::invalid_argument the constructor throws.
InvalidArgument ==
    {"Mapper cannot be null", "Reducer cannot be null",
     "Number of mapper threads must be greater than zero"}

\* Dispatcher::Dispatcher(mapper_, reducer_, input_buffer_size,
\* num_mapper_threads): the members are initialised, input_buffer by
\* SynchronizedBuffer(input_buffer_size), which tests nothing; then the three
\* tests of the body, each with its throw; then the threads are started.
Dispatcher(mapper_, reducer_, input_buffer_size, num_mapper_threads) ==
    LET members == [input_buffer |-> SynchronizedBuffer(input_buffer_size),
                    intermediate_queue |-> SyncBoundedPriorityQueue(SIZE_MAX),
                    mapper |-> mapper_,
                    reducer |-> reducer_,
                    next_job_index |-> 0]
    IN  IF mapper_ = "null"
        THEN [outcome |-> "throw", what |-> "Mapper cannot be null",
              members |-> members, mapper_threads |-> <<>>]
        ELSE IF reducer_ = "null"
        THEN [outcome |-> "throw", what |-> "Reducer cannot be null",
              members |-> members, mapper_threads |-> <<>>]
        ELSE IF num_mapper_threads = 0
        THEN [outcome |-> "throw",
              what |-> "Number of mapper threads must be greater than zero",
              members |-> members, mapper_threads |-> <<>>]
        ELSE [outcome |-> "constructed", what |-> "none",
              members |-> members,
              mapper_threads |-> [i \in 1..num_mapper_threads |-> Thread]]

\* The state after the constructor call d made by CallerId(1), in a program
\* of num_callers threads that use the Dispatcher. After a throw no
\* Dispatcher exists and the caller holds the exception.
Constructed(d, num_callers) ==
    /\ input_buffer = d.members.input_buffer
    /\ intermediate_queue = d.members.intermediate_queue
    /\ next_job_index = d.members.next_job_index
    /\ mapper = d.members.mapper
    /\ reducer = d.members.reducer
    /\ mapper_threads = d.mapper_threads
    /\ reducer_thread = IF d.outcome = "constructed" THEN Thread
                        ELSE [pc |-> "done", joinable |-> FALSE]
    /\ callers = IF d.outcome = "constructed"
                 THEN [t \in {CallerId(k) : k \in 1..num_callers} |-> Caller]
                 ELSE [t \in {CallerId(1)} |->
                         [Caller EXCEPT !.pc = "failed", !.result = d.what]]
    /\ submitted = <<>>
    /\ assigned = <<>>
    /\ reduced = <<>>

\* A Dispatcher constructed with non-null mapper and reducer, a positive
\* input_buffer_size and a positive num_mapper_threads, used by one thread.
Init ==
    /\ InitProcess
    /\ NoContainer
    /\ \E input_buffer_size \in 1..MaxBufferSize,
          num_mapper_threads \in 1..MaxMappers :
          Constructed(Dispatcher("mapper", "reducer", input_buffer_size,
                                 num_mapper_threads), 1)

\* A constructor call with any arguments, the null pointers and the zero
\* sizes included.
InitAnyArguments ==
    /\ InitProcess
    /\ NoContainer
    /\ \E mapper_ \in {"null", "mapper"}, reducer_ \in {"null", "reducer"},
          input_buffer_size \in 0..MaxBufferSize,
          num_mapper_threads \in 0..MaxMappers :
          Constructed(Dispatcher(mapper_, reducer_, input_buffer_size,
                                 num_mapper_threads), 1)

\* A Dispatcher as in Init, used by NumCallers threads: CallerId(1) constructs
\* it, submits and closes; the other threads submit.
InitConcurrent ==
    /\ InitProcess
    /\ NoContainer
    /\ \E input_buffer_size \in 1..MaxBufferSize,
          num_mapper_threads \in 1..MaxMappers :
          Constructed(Dispatcher("mapper", "reducer", input_buffer_size,
                                 num_mapper_threads), NumCallers)

\* The add_input calls begun so far that have returned or are still running.
Started ==
    Len(submitted)
    + Cardinality({t \in DOMAIN callers :
                      callers[t].pc \in {"next_job_index", "make_pair", "push"}})

\* Dispatcher::add_input, up to the is_closed() test. A run makes at most
\* MaxInputs calls that get past it.
add_input(self, input) ==
    /\ crashed = "none"
    /\ callers[self].pc = "idle"
    /\ IF is_closed(input_buffer)
       THEN callers' = [callers EXCEPT ![self].result = SubmitAfterClose]
       ELSE /\ Started < MaxInputs
            /\ callers' = [callers EXCEPT ![self].pc = "next_job_index",
                                          ![self].input = input,
                                          ![self].result = "none"]
    /\ UNCHANGED <<input_buffer, intermediate_queue, next_job_index,
                   mapper_threads, reducer_thread, submitted, reduced>>
    /\ UNCHANGED <<NDEBUG, crashed>>
    /\ UNCHANGED <<mapper, reducer, assigned>>
    /\ UNCHANGED cvars

\* Dispatcher::add_input: the read of next_job_index++. next_job_index is a
\* plain size_t that add_input reads and writes outside every lock, so the
\* read and the write are two steps that other threads can come between.
add_input_next_job_index(self) ==
    /\ crashed = "none"
    /\ callers[self].pc = "next_job_index"
    /\ callers' = [callers EXCEPT ![self].pc = "make_pair",
                                  ![self].n = next_job_index]
    /\ UNCHANGED <<input_buffer, intermediate_queue, next_job_index,
                   mapper_threads, reducer_thread, submitted, reduced>>
    /\ UNCHANGED <<NDEBUG, crashed>>
    /\ UNCHANGED <<mapper, reducer, assigned>>
    /\ UNCHANGED cvars

\* Dispatcher::add_input: the write of next_job_index++ and
\* std::make_pair(input, n) with the value n read before.
add_input_make_pair(self) ==
    /\ crashed = "none"
    /\ callers[self].pc = "make_pair"
    /\ callers' = [callers EXCEPT
            ![self].pc = "push",
            ![self].item = make_pair(callers[self].input, callers[self].n)]
    /\ next_job_index' = callers[self].n + 1
    /\ UNCHANGED <<input_buffer, intermediate_queue,
                   mapper_threads, reducer_thread, submitted, reduced>>
    /\ UNCHANGED <<NDEBUG, crashed>>
    /\ UNCHANGED <<mapper, reducer, assigned>>
    /\ UNCHANGED cvars

\* Dispatcher::add_input: input_buffer.push(...), from the lock on.
add_input_push(self) ==
    /\ crashed = "none"
    /\ callers[self].pc = "push"
    /\ ~parked(input_buffer, self)
    /\ \E r \in push(input_buffer, self, callers[self].item) :
        /\ input_buffer' = r.c
        /\ callers' = [callers EXCEPT
                ![self].pc = IF r.outcome = "wait" THEN "push" ELSE "idle",
                ![self].input = IF r.outcome = "wait" THEN @ ELSE Caller.input,
                ![self].n = IF r.outcome = "wait" THEN @ ELSE Caller.n,
                ![self].item = IF r.outcome = "wait" THEN @ ELSE Caller.item,
                ![self].result = CASE r.outcome = "wait" -> "none"
                                   [] r.outcome = "throw" -> PushAfterClose
                                   [] OTHER -> "ok"]
        /\ submitted' = IF r.outcome = "return"
                        THEN Append(submitted, callers[self].input)
                        ELSE submitted
        /\ assigned' = IF r.outcome = "return"
                       THEN Append(assigned, callers[self].n)
                       ELSE assigned
    /\ UNCHANGED <<intermediate_queue, next_job_index,
                   mapper_threads, reducer_thread, reduced>>
    /\ UNCHANGED <<NDEBUG, crashed>>
    /\ UNCHANGED <<mapper, reducer>>
    /\ UNCHANGED cvars

\* Mapper thread i: input_buffer.pop(); on an item, the structured binding
\* auto& [idx, input] and mapper->map(input).
mapper_pop(i) ==
    /\ crashed = "none"
    /\ i \in DOMAIN mapper_threads
    /\ mapper_threads[i].pc = "pop"
    /\ ~parked(input_buffer, MapperId(i))
    /\ \E r \in pop(input_buffer, MapperId(i)) :
        /\ input_buffer' = r.c
        /\ mapper_threads' = [mapper_threads EXCEPT
                ![i].pc = CASE r.outcome = "wait" -> "pop"
                            [] r.outcome = "nullopt" -> "done"
                            [] OTHER -> "push",
                ![i].item = IF r.outcome = "item"
                            THEN LET idx == r.item.first
                                     input == r.item.second
                                 IN QueueElement(idx, map(input))
                            ELSE @]
    /\ UNCHANGED <<intermediate_queue, next_job_index, reducer_thread,
                   callers, submitted, reduced>>
    /\ UNCHANGED <<NDEBUG, crashed>>
    /\ UNCHANGED <<mapper, reducer, assigned>>
    /\ UNCHANGED cvars

\* Mapper thread i: intermediate_queue.push({idx, intermediate}). A throw is
\* not caught in the thread: std::terminate.
mapper_push(i) ==
    /\ crashed = "none"
    /\ i \in DOMAIN mapper_threads
    /\ mapper_threads[i].pc = "push"
    /\ ~parked(intermediate_queue, MapperId(i))
    /\ \E r \in push(intermediate_queue, MapperId(i), mapper_threads[i].item) :
        /\ intermediate_queue' = r.c
        /\ mapper_threads' = [mapper_threads EXCEPT
                ![i].pc = IF r.outcome = "return" THEN "pop" ELSE "push",
                ![i].item = IF r.outcome = "return" THEN NoItem ELSE @]
        /\ crashed' = IF r.outcome = "throw" THEN "terminate" ELSE crashed
    /\ UNCHANGED <<input_buffer, next_job_index, reducer_thread,
                   callers, submitted, reduced>>
    /\ UNCHANGED NDEBUG
    /\ UNCHANGED <<mapper, reducer, assigned>>
    /\ UNCHANGED cvars

\* Reducer thread: intermediate_queue.pop(); on an item,
\* reducer->reduce(item.value().second).
reducer_pop(self) ==
    /\ crashed = "none"
    /\ self = ReducerId
    /\ reducer_thread.pc = "pop"
    /\ ~parked(intermediate_queue, self)
    /\ \E r \in pop(intermediate_queue, self) :
        /\ intermediate_queue' = r.c
        /\ reducer_thread' = [reducer_thread EXCEPT
                !.pc = IF r.outcome = "nullopt" THEN "done" ELSE "pop"]
        /\ reduced' = IF r.outcome = "item"
                      THEN Append(reduced, r.item.value)
                      ELSE reduced
        /\ crashed' = IF r.outcome = "abort" THEN "assert" ELSE crashed
        /\ NDEBUG' = IF r.outcome = "item" THEN build_after(r) ELSE NDEBUG
    /\ UNCHANGED <<input_buffer, next_job_index, mapper_threads,
                   callers, submitted>>
    /\ UNCHANGED <<mapper, reducer, assigned>>
    /\ UNCHANGED cvars

\* Dispatcher::close: input_buffer.close(). The thread that constructed the
\* Dispatcher is the one that closes it.
close_input_buffer(self) ==
    /\ crashed = "none"
    /\ self = CallerId(1)
    /\ callers[self].pc = "idle"
    /\ callers[self].closes < MaxCloses
    /\ input_buffer' = close(input_buffer)
    /\ callers' = [callers EXCEPT
            ![self].pc = "join_mappers", ![self].i = 1, ![self].result = "none",
            ![self].pending_at_close = Len(submitted) - Len(reduced)]
    /\ UNCHANGED <<intermediate_queue, next_job_index, mapper_threads,
                   reducer_thread, submitted, reduced>>
    /\ UNCHANGED <<NDEBUG, crashed>>
    /\ UNCHANGED <<mapper, reducer, assigned>>
    /\ UNCHANGED cvars

\* Mutant of Dispatcher::close: the mapper threads are not joined.
close_without_join(self) ==
    /\ crashed = "none"
    /\ callers[self].pc = "join_mappers"
    /\ callers' = [callers EXCEPT ![self].pc = "close_queue", ![self].i = 0]
    /\ UNCHANGED <<input_buffer, intermediate_queue, next_job_index,
                   mapper_threads, reducer_thread, submitted, reduced>>
    /\ UNCHANGED <<NDEBUG, crashed>>
    /\ UNCHANGED <<mapper, reducer, assigned>>
    /\ UNCHANGED cvars

\* Dispatcher::close: one turn of for(auto& t : mapper_threads)
\* if(t.joinable()) t.join(); join blocks until the thread has returned.
close_join_mapper(self) ==
    /\ crashed = "none"
    /\ callers[self].pc = "join_mappers"
    /\ LET i == callers[self].i IN
        IF i > Len(mapper_threads)
        THEN /\ callers' = [callers EXCEPT ![self].pc = "close_queue", ![self].i = 0]
             /\ UNCHANGED mapper_threads
        ELSE /\ mapper_threads[i].joinable => mapper_threads[i].pc = "done"
             /\ mapper_threads' = [mapper_threads EXCEPT ![i].joinable = FALSE]
             /\ callers' = [callers EXCEPT ![self].i = i + 1]
    /\ UNCHANGED <<input_buffer, intermediate_queue, next_job_index,
                   reducer_thread, submitted, reduced>>
    /\ UNCHANGED <<NDEBUG, crashed>>
    /\ UNCHANGED <<mapper, reducer, assigned>>
    /\ UNCHANGED cvars

\* Dispatcher::close: intermediate_queue.close().
close_intermediate_queue(self) ==
    /\ crashed = "none"
    /\ callers[self].pc = "close_queue"
    /\ intermediate_queue' = close(intermediate_queue)
    /\ callers' = [callers EXCEPT ![self].pc = "join_reducer"]
    /\ UNCHANGED <<input_buffer, next_job_index, mapper_threads,
                   reducer_thread, submitted, reduced>>
    /\ UNCHANGED <<NDEBUG, crashed>>
    /\ UNCHANGED <<mapper, reducer, assigned>>
    /\ UNCHANGED cvars

\* Dispatcher::close: if(reducer_thread.joinable()) reducer_thread.join();
\* and the return of close.
close_join_reducer(self) ==
    /\ crashed = "none"
    /\ callers[self].pc = "join_reducer"
    /\ reducer_thread.joinable => reducer_thread.pc = "done"
    /\ reducer_thread' = [reducer_thread EXCEPT !.joinable = FALSE]
    /\ callers' = [callers EXCEPT ![self].pc = "idle", ![self].result = "ok",
                                  ![self].closes = @ + 1]
    /\ UNCHANGED <<input_buffer, intermediate_queue, next_job_index,
                   mapper_threads, submitted, reduced>>
    /\ UNCHANGED <<NDEBUG, crashed>>
    /\ UNCHANGED <<mapper, reducer, assigned>>
    /\ UNCHANGED cvars

\* A spurious wakeup of a Dispatcher thread parked on one of the two queues.
SpuriousWakeupD(self) ==
    /\ crashed = "none"
    /\ parked(input_buffer, self) \/ parked(intermediate_queue, self)
    /\ input_buffer' = wake(input_buffer, self)
    /\ intermediate_queue' = wake(intermediate_queue, self)
    /\ UNCHANGED <<next_job_index, mapper_threads, reducer_thread, callers,
                   submitted, reduced>>
    /\ UNCHANGED <<NDEBUG, crashed>>
    /\ UNCHANGED <<mapper, reducer, assigned>>
    /\ UNCHANGED cvars

DispatcherThreads ==
    DOMAIN callers \cup {MapperId(i) : i \in DOMAIN mapper_threads} \cup {ReducerId}

Next ==
    \/ \E self \in DOMAIN callers, input \in InputValues : add_input(self, input)
    \/ \E self \in DOMAIN callers : add_input_next_job_index(self)
    \/ \E self \in DOMAIN callers : add_input_make_pair(self)
    \/ \E self \in DOMAIN callers : add_input_push(self)
    \/ \E i \in DOMAIN mapper_threads : mapper_pop(i)
    \/ \E i \in DOMAIN mapper_threads : mapper_push(i)
    \/ reducer_pop(ReducerId)
    \/ \E self \in DOMAIN callers : close_input_buffer(self)
    \/ \E self \in DOMAIN callers : close_join_mapper(self)
    \/ \E self \in DOMAIN callers : close_intermediate_queue(self)
    \/ \E self \in DOMAIN callers : close_join_reducer(self)
    \/ \E self \in DispatcherThreads : SpuriousWakeupD(self)

Spec == Init /\ [][Next]_vars

\* The constructor called with any arguments.
SpecAnyArguments == InitAnyArguments /\ [][Next]_vars

\* NumCallers threads use the Dispatcher at the same time.
SpecConcurrent == InitConcurrent /\ [][Next]_vars

\* The threads of a Dispatcher run with one caller are scheduled fairly: a
\* thread that can take its next step inside add_input, inside close or in a
\* worker loop takes it. Whether and when add_input and close are called is
\* up to the caller, and no spurious wakeup has to happen.
Fairness ==
    /\ WF_vars(add_input_next_job_index(CallerId(1)))
    /\ WF_vars(add_input_make_pair(CallerId(1)))
    /\ WF_vars(add_input_push(CallerId(1)))
    /\ WF_vars(close_join_mapper(CallerId(1)))
    /\ WF_vars(close_intermediate_queue(CallerId(1)))
    /\ WF_vars(close_join_reducer(CallerId(1)))
    /\ \A i \in 1..MaxMappers : WF_vars(mapper_pop(i)) /\ WF_vars(mapper_push(i))
    /\ WF_vars(reducer_pop(ReducerId))

SpecFair == Init /\ [][Next]_vars /\ Fairness

\* ===================================================================== claims
Range(seq) == {seq[j] : j \in DOMAIN seq}
Count(seq, v) == Cardinality({j \in DOMAIN seq : seq[j] = v})
Mapped(seq) == [j \in DOMAIN seq |-> map(seq[j])]
IsPQ(c) == c.kind = "SyncBoundedPriorityQueue"
IsFIFO(c) == c.kind = "SynchronizedBuffer"
CloseReturned == \E t \in DOMAIN callers : callers[t].closes >= 1

\* C1 (Order, P1): the values passed to reducer.reduce are, in order,
\* map(i0), map(i1), ... for the inputs i0, i1, ... of the add_input calls that
\* returned, whatever the input values are.
C1_Order ==
    \A j \in 1..Len(reduced) :
        j <= Len(submitted) /\ reduced[j] = map(submitted[j])

\* C2 (Completeness, P3): once a call of Dispatcher::close has returned,
\* reduce has been called exactly as many times as add_input returned.
C2_Completeness ==
    CloseReturned => Len(reduced) = Len(submitted)

\* C2 witness: close has returned after it was called with at least two
\* submitted inputs not yet reduced, and every one of them was reduced.
C2_Witness ==
    \E t \in DOMAIN callers :
        /\ callers[t].closes >= 1
        /\ callers[t].pending_at_close >= 2
        /\ Len(reduced) = Len(submitted)
        /\ Len(submitted) >= 2

\* C3 (Exactly-once, P2): reduce is never called on a value more often than
\* that value derives from a submitted input, and once close has returned
\* every intermediate derived from a submitted input has been reduced exactly
\* as often as it was submitted.
C3_ExactlyOnce ==
    \A v \in Range(reduced) \cup Range(Mapped(submitted)) :
        /\ Count(reduced, v) <= Count(Mapped(submitted), v)
        /\ CloseReturned => Count(reduced, v) = Count(Mapped(submitted), v)

\* C4 (Index tagging): a pair in the FIFO carries in its index component
\* (first) the position k of the add_input call that put it there and in its
\* payload component (second) the input of that call; a mapper worker and the
\* ordered queue hold, under index k, map of the k-th input.
C4_IndexTagging ==
    /\ \A j \in 1..Len(input_buffer.buffer) :
          LET e == input_buffer.buffer[j] IN
            /\ e.first + 1 \in DOMAIN submitted
            /\ e.second = submitted[e.first + 1]
    /\ \A q \in intermediate_queue.pq \cup
                {mapper_threads[i].item :
                    i \in {k \in DOMAIN mapper_threads : mapper_threads[k].pc = "push"}} :
            /\ q.index + 1 \in DOMAIN submitted
            /\ q.value = map(submitted[q.index + 1])

\* C5 (Closed-is-closed, P6): once a call of close has returned, every step
\* leaves the pipeline as it is (no reduce call, no item, no index taken);
\* an add_input ends at its is_closed test with SubmitAfterClose; and a
\* further close finds no thread left to join, so none of its steps blocks.
C5_ClosedIsClosed ==
    [][CloseReturned =>
        /\ reduced' = reduced
        /\ submitted' = submitted
        /\ next_job_index' = next_job_index
        /\ input_buffer' = input_buffer
        /\ intermediate_queue' = intermediate_queue
        /\ crashed' = "none"
        /\ \A t \in DOMAIN callers :
            /\ callers'[t].pc \notin {"next_job_index", "make_pair", "push"}
            /\ callers'[t].result \in {"ok", "none", SubmitAfterClose}
            /\ (callers[t].pc = "idle" /\ callers'[t].pc = "idle"
                    /\ callers'[t] # callers[t])
                  => callers'[t].result = SubmitAfterClose
            /\ callers'[t].pc = "join_mappers" =>
                  /\ \A i \in DOMAIN mapper_threads : ~mapper_threads'[i].joinable
                  /\ ~reducer_thread'.joinable
            /\ callers'[t].closes >= callers[t].closes
      ]_vars

\* C5 witness: close has returned twice and an add_input after it has failed
\* with SubmitAfterClose.
C5_Witness ==
    \E t \in DOMAIN callers :
        /\ callers[t].closes >= 2
        /\ callers[t].pc = "idle"
        /\ callers[t].result = SubmitAfterClose
        /\ Len(submitted) >= 1

\* C6 (Backpressure, P5): with one mapper worker and a FIFO of capacity 1, as
\* long as the reducer has reduced nothing the ordered queue holds no more
\* than C_in + W intermediates (the finite capacity the design names for it):
\* the mapper worker is held back, and through the FIFO the submitter.
C6_Backpressure ==
    (Len(mapper_threads) = 1 /\ input_buffer.max_size = 1 /\ reduced = <<>>)
        => Cardinality(intermediate_queue.pq)
              <= input_buffer.max_size + Len(mapper_threads)

\* C7 (Bounded ordered queue, P4): a SyncBoundedPriorityQueue of capacity
\* C_out never stores more than C_out + 1 items.
C7_BoundedOrderedQueue ==
    IsPQ(container) => Cardinality(container.pq) <= container.max_size + 1

\* C7 amended: a push into a queue that already stores C_out or more items is
\* admitted only with an index below every stored index, and adds exactly
\* that one item; the overshoot is one per such push, not one in all.
C7_OvershootOnlyBelowMinimum ==
    [][(/\ IsPQ(container)
        /\ Cardinality(container'.pq) > Cardinality(container.pq)
        /\ Cardinality(container.pq) >= container.max_size)
        => /\ Cardinality(container'.pq) = Cardinality(container.pq) + 1
           /\ \A e \in container'.pq \ container.pq :
                \A f \in container.pq : e.index < f.index
      ]_vars

\* C7 witness: the queue stores two items more than its capacity.
C7_Witness ==
    IsPQ(container) /\ Cardinality(container.pq) >= container.max_size + 2

\* C8 (Bounded FIFO): a SynchronizedBuffer of capacity C_in stores between 0
\* and C_in items, and a pusher parked on a full, open buffer has inserted
\* nothing: its item is in no completed push.
C8_BoundedFIFO ==
    IsFIFO(container) =>
        /\ Len(container.buffer) >= 0
        /\ Len(container.buffer) <= container.max_size
        /\ \A t \in container.cv_can_accept :
              \A j \in 1..Len(pushed) : pushed[j] # clients[t].item

\* C8 witness: the buffer is full and open and a pusher is parked on it.
C8_Witness ==
    /\ IsFIFO(container)
    /\ Len(container.buffer) = container.max_size
    /\ ~container.finished
    /\ \E t \in Pushers : t \in container.cv_can_accept

\* C9 (Strict in-order release): the i-th item returned by pop (counting from
\* 0) has index i, and no pop ends in a failed assertion, also when close is
\* called while only indices above the next-expected counter are stored.
C9_InOrderRelease ==
    IsPQ(container) =>
        /\ \A j \in 1..Len(popped) : popped[j].index = j - 1
        /\ crashed # "assert"

\* C10 (No lost wakeup): the system is never in a state where the popper is
\* parked waiting for index k while the pusher holding index k is parked on
\* an open queue that would admit it.
C10_NoLostWakeup ==
    ~(/\ IsPQ(container)
      /\ ~container.finished
      /\ PopperId(1) \in container.cv_can_remove
      /\ \E p \in Pushers :
            /\ clients[p].pc = "push"
            /\ p \in container.cv_can_accept
            /\ clients[p].item.index = container.next_index
            /\ container_can_accept(container, clients[p].item))

\* The items stored in container c.
stored(c) == IF IsFIFO(c) THEN Range(c.buffer) ELSE c.pq

\* C12 (Push after close): on a closed container of either kind every push
\* ends with the error "Push to a closed container" and inserts nothing,
\* whether the container was closed before the call or while the call was
\* parked waiting for room: close wakes every parked pusher, no pusher stays
\* or becomes parked on a closed container, and no step adds an item to it.
C12_PushAfterClose ==
    [][\A t \in Pushers :
        /\ (container.finished /\ clients[t].pc = "push" /\ clients'[t] # clients[t])
              => /\ clients'[t].pc = "idle"
                 /\ clients'[t].result = PushAfterClose
                 /\ container' = container
                 /\ pushed' = pushed
        /\ (~container.finished /\ container'.finished /\ t \in container.cv_can_accept)
              => /\ ~parked(container', t)
                 /\ clients'[t].pc = "push"
        /\ container'.finished => container'.cv_can_accept = {}
        /\ container.finished
              => /\ pushed' = pushed
                 /\ stored(container') \subseteq stored(container)
      ]_vars

\* C12 witness: on a closed container one push that was parked when close
\* came and one push that was never parked have both ended with the error.
C12_Witness ==
    /\ container.finished
    /\ \E t, u \in Pushers :
          /\ clients[t].pc = "idle" /\ clients[t].result = PushAfterClose
          /\ clients[t].waited
          /\ clients[u].pc = "idle" /\ clients[u].result = PushAfterClose
          /\ ~clients[u].waited

\* C13 (FIFO order and drain): in a SynchronizedBuffer the items leave in the
\* order in which their pushes completed and none is dropped, by close or
\* otherwise: the completed pushes are the items popped so far followed by the
\* items stored; and pop has returned the end-of-stream value only on a
\* buffer that is closed and empty.
C13_FIFOOrderAndDrain ==
    IsFIFO(container) =>
        /\ pushed = popped \o container.buffer
        /\ \A t \in DOMAIN clients :
              clients[t].result = "nullopt"
                 => container.finished /\ container.buffer = <<>>

\* C13 witness: close came while two items were stored; both have been popped
\* since, in push order, and a later pop has returned the end-of-stream value.
C13_Witness ==
    /\ IsFIFO(container)
    /\ container.finished
    /\ Len(popped) >= 2
    /\ popped = pushed
    /\ clients[CloserId].result = "ok"
    /\ \E t \in DOMAIN clients : clients[t].result = "nullopt"
    /\ \E t \in DOMAIN clients : clients[t].result = "item"

Admissible(c, index) ==
    \/ Cardinality(c.pq) < c.max_size
    \/ c.pq # {} /\ \A f \in c.pq : index < f.index

\* C19 (Admission rule): on an open SyncBoundedPriorityQueue a push completes
\* without parking exactly when the queue stores fewer than C_out items or is
\* not empty and the new index is below the current minimum: a push that parks
\* was not admissible and a push that inserts was. And whenever a pusher holds
\* the index equal to the next-expected counter, that item is admissible,
\* also when the queue is at or above capacity.
C19_AdmissionRule ==
    /\ [][(IsPQ(container) /\ ~container.finished) =>
            \A t \in Pushers :
                (clients[t].pc = "push" /\ ~parked(container, t)) =>
                    /\ (t \in container'.cv_can_accept)
                          => ~Admissible(container, clients[t].item.index)
                    /\ (clients'[t].pc = "idle")
                          => /\ Admissible(container, clients[t].item.index)
                             /\ container'.pq = container.pq \cup {clients[t].item}
                             /\ clients'[t].result = "ok"
         ]_vars
    /\ [](IsPQ(container) /\ ~container.finished =>
            \A t \in Pushers :
                (clients[t].pc = "push"
                    /\ clients[t].item.index = container.next_index)
                  => Admissible(container, container.next_index))

\* C19 witness: the open queue stores more items than its capacity and a
\* pusher is about to push the item of the next-expected index.
C19_Witness ==
    /\ IsPQ(container)
    /\ ~container.finished
    /\ Cardinality(container.pq) > container.max_size
    /\ \E t \in Pushers :
          /\ clients[t].pc = "push"
          /\ ~parked(container, t)
          /\ clients[t].item.index = container.next_index

\* C14 (Construction validation): a constructor call with a null mapper, a
\* null reducer, input_buffer_size = 0 or num_mapper_threads = 0 ends with a
\* std::invalid_argument and leaves no Dispatcher: a Dispatcher that exists
\* has a mapper, a reducer, a FIFO of capacity >= 1 and a mapper worker, and
\* a constructor that failed has thrown one of the invalid_argument messages
\* and started no thread.
C14_ConstructionValidation ==
    \A t \in DOMAIN callers :
        IF callers[t].pc = "failed"
        THEN /\ callers[t].result \in InvalidArgument
             /\ mapper_threads = <<>>
             /\ reducer_thread.pc = "done"
        ELSE /\ mapper # "null"
             /\ reducer # "null"
             /\ input_buffer.max_size >= 1
             /\ Len(mapper_threads) >= 1

\* C15 (Release assertion): in a Dispatcher run with one submitting thread and
\* any inputs, the assertion of remove_from_container (the index of the
\* released item equals the next-expected counter) never fails: neither does
\* it abort the process nor does a build without assertions release an item
\* of another index.
C15_ReleaseAssertion ==
    crashed # "assert" /\ NDEBUG # "defined"

\* C16 (Shutdown order): close closes the FIFO, joins the mapper workers,
\* closes the ordered queue and joins the reducer, in this order: the ordered
\* queue is closed only when the FIFO is closed and every mapper worker has
\* left its loop with nothing in hand, close returns only when the reducer
\* has left its loop too, and no push of a mapper worker into the ordered
\* queue ends with PushAfterClose (which would end the process).
C16_ShutdownOrder ==
    /\ crashed # "terminate"
    /\ intermediate_queue.finished =>
          /\ input_buffer.finished
          /\ \A i \in DOMAIN mapper_threads :
                /\ mapper_threads[i].pc = "done"
                /\ ~mapper_threads[i].joinable
    /\ \A t \in DOMAIN callers :
          /\ callers[t].pc \in {"join_mappers", "close_queue", "join_reducer"}
                => input_buffer.finished
          /\ callers[t].pc = "join_reducer" => intermediate_queue.finished
          /\ callers[t].closes >= 1 =>
                /\ intermediate_queue.finished
                /\ reducer_thread.pc = "done"
                /\ ~reducer_thread.joinable

\* C16 witness: close has returned in a run with two mapper workers, called
\* while two submitted inputs had not been reduced.
C16_Witness ==
    /\ Len(mapper_threads) = 2
    /\ \E t \in DOMAIN callers :
          /\ callers[t].closes >= 1
          /\ callers[t].pending_at_close >= 2
    /\ intermediate_queue.finished
    /\ Len(reduced) >= 2

\* A call of Dispatcher::close is running.
InClose ==
    \E t \in DOMAIN callers :
        callers[t].pc \in {"join_mappers", "close_queue", "join_reducer"}

\* C11 (Shutdown terminates, P7): a call of Dispatcher::close eventually
\* returns, so a run is never at a point inside close from which no thread
\* can take a step: while close is running, some thread of the run can move.
C11_ShutdownTerminates ==
    InClose => ENABLED Next

\* C11 as a liveness property: under a fair scheduler every call of
\* Dispatcher::close returns, and when it has returned every mapper thread
\* and the reducer thread have left their loops.
C11_CloseReturns ==
    (callers[CallerId(1)].pc = "join_mappers")
        ~> (/\ callers[CallerId(1)].pc = "idle"
            /\ callers[CallerId(1)].result = "ok"
            /\ \A i \in DOMAIN mapper_threads : mapper_threads[i].pc = "done"
            /\ reducer_thread.pc = "done")

\* An add_input call is past its is_closed test and has not ended.
InAddInput(t) == callers[t].pc \in {"next_job_index", "make_pair", "push"}

\* C17 (Atomic index assignment): with several threads calling add_input at
\* the same time, the calls that returned have taken pairwise distinct values
\* of next_job_index, and whenever no call is running these values are
\* exactly 0 .. N-1 for the N calls that returned: none twice, none skipped,
\* none taken by a call that failed.
C17_AtomicIndexAssignment ==
    /\ \A j, k \in DOMAIN assigned : j # k => assigned[j] # assigned[k]
    /\ (\A t \in DOMAIN callers : ~InAddInput(t))
          => Range(assigned) = 0..(Len(assigned) - 1)

\* C20 (Failed submit changes nothing): the step in which an add_input call
\* fails, with SubmitAfterClose at its is_closed test or with PushAfterClose
\* out of a push that was parked on the full FIFO when close came, adds no
\* item to the FIFO and leaves next_job_index as it was when the call began:
\* the value the failing call read from it has not been used up.
C20_FailedSubmitChangesNothing ==
    [][\A t \in DOMAIN callers :
        (/\ callers'[t] # callers[t]
         /\ callers'[t].pc = "idle"
         /\ callers'[t].result \in {SubmitAfterClose, PushAfterClose})
          => /\ input_buffer'.buffer = input_buffer.buffer
             /\ submitted' = submitted
             /\ next_job_index' = next_job_index
             /\ InAddInput(t) => next_job_index' <= callers[t].n
      ]_vars

\* The number of items that carry index n in each stage of the pipeline: in
\* the FIFO, in the hand of a mapper thread between its pop and the return of
\* its push, in the ordered queue; and whether n is below the next-expected
\* counter of the ordered queue.
InFIFO(n) ==
    Cardinality({j \in DOMAIN input_buffer.buffer : input_buffer.buffer[j].first = n})
InMapper(n) ==
    Cardinality({i \in DOMAIN mapper_threads :
                    mapper_threads[i].pc = "push" /\ mapper_threads[i].item.index = n})
InQueue(n) == Cardinality({q \in intermediate_queue.pq : q.index = n})
Delivered(n) == IF n < intermediate_queue.next_index THEN 1 ELSE 0

\* The indices some stage holds, and the stage an index has reached.
StagedIndices ==
    {input_buffer.buffer[j].first : j \in DOMAIN input_buffer.buffer}
    \cup {mapper_threads[i].item.index :
            i \in {m \in DOMAIN mapper_threads : mapper_threads[m].pc = "push"}}
    \cup {q.index : q \in intermediate_queue.pq}
    \cup 0..(intermediate_queue.next_index - 1)
Stage(n) ==
    IF Delivered(n) = 1 THEN 4
    ELSE IF InQueue(n) > 0 THEN 3
    ELSE IF InMapper(n) > 0 THEN 2
    ELSE IF InFIFO(n) > 0 THEN 1
    ELSE 0

\* The state part of C21.
IndicesConserved ==
    /\ \A n \in StagedIndices \cup Range(assigned) :
          InFIFO(n) + InMapper(n) + InQueue(n) + Delivered(n)
              = IF n \in Range(assigned) THEN 1 ELSE 0
    /\ \A q \in intermediate_queue.pq : q.index >= intermediate_queue.next_index

\* C21 (Conservation of indices): in a Dispatcher run with one submitting
\* thread, after every step each index taken by an add_input call that
\* returned is in exactly one stage (FIFO, a mapper worker, the ordered
\* queue, delivered) and no other index is in any; the ordered queue holds
\* pairwise distinct indices, all >= the next-expected counter k; every
\* delivery releases the item of index k and moves k on by one, so the
\* delivered indices are exactly 0..k-1; and no index moves back a stage.
C21_ConservationOfIndices ==
    [][/\ IndicesConserved'
       /\ intermediate_queue'.next_index # intermediate_queue.next_index
            => \E e \in intermediate_queue.pq :
                  /\ e.index = intermediate_queue.next_index
                  /\ intermediate_queue'.pq = intermediate_queue.pq \ {e}
                  /\ intermediate_queue'.next_index = intermediate_queue.next_index + 1
       /\ \A n \in StagedIndices : Stage(n)' >= Stage(n)
      ]_vars

====
